---- MODULE Spec2Model ----
(***************************************************************************)
(* Model of medicaldattavisualiser.py: the two pipelines draw_cat_plot and *)
(* draw_heat_map over the file medical_examination.csv.                    *)
(*                                                                         *)
(* The arithmetic of the overweight column is float64 arithmetic (pandas   *)
(* divides an int64 column by 100, squares it and divides the weight by    *)
(* the result), so it is modelled as IEEE-754 binary64 round-to-nearest-   *)
(* even on arbitrary-precision naturals, not as exact rationals.           *)
(***************************************************************************)
EXTENDS Integers, Sequences, FiniteSets, TLC

(***************************************************************************)
(* Arbitrary-precision naturals: little-endian sequences of limbs, no      *)
(* leading zero limb, zero is <<>>.  (TLC's integers are 32 bits wide; a   *)
(* float64 significand has 53 bits and a product of two has 106.)          *)
(*                                                                         *)
(* An operator named ...V takes its arguments as values; the operator      *)
(* without the V binds each argument once (x \in {a}) and applies it, so   *)
(* that an argument expression is evaluated once however often it is read. *)
(***************************************************************************)
LimbBits == 15
Base == 2 ^ LimbBits

Max(a, b) == IF a >= b THEN a ELSE b
Min(a, b) == IF a <= b THEN a ELSE b

Limb(a, i) == IF i >= 1 /\ i <= Len(a) THEN a[i] ELSE 0

\* a without its leading zero limbs
BigNormV(a) ==
  LET nz == {i \in 1..Len(a) : a[i] # 0}
  IN  IF nz = {} THEN <<>>
      ELSE SubSeq(a, 1, CHOOSE i \in nz : \A j \in nz : j <= i)

BigNorm(a) == CHOOSE r \in {BigNormV(x) : x \in {a}} : TRUE

\* a natural below 2^31
BigOf(n) ==
  CHOOSE r \in {BigNormV(<<x % Base, (x \div Base) % Base, x \div (Base * Base)>>) :
                  x \in {n}} : TRUE

\* a + b: limb i receives a carry iff a lower limb generates one (its sum
\* reaches Base) and every limb between passes it on (its sum is Base - 1)
BigAddV(a, b) ==
  LET n    == Max(Len(a), Len(b))
      s(i) == Limb(a, i) + Limb(b, i)
      c(i) == IF \E j \in 1..(i - 1) :
                    s(j) >= Base /\ \A k \in (j + 1)..(i - 1) : s(k) = Base - 1
              THEN 1 ELSE 0
  IN  BigNorm([i \in 1..(n + 1) |-> IF i <= n THEN (s(i) + c(i)) % Base ELSE c(i)])

BigAdd(a, b) == CHOOSE r \in {BigAddV(x, y) : x \in {a}, y \in {b}} : TRUE

\* a - b for a >= b: limb i lends iff a lower limb of a is below b's and every
\* limb between is equal
BigSubV(a, b) ==
  LET c(i) == IF \E j \in 1..(i - 1) :
                    Limb(a, j) < Limb(b, j)
                    /\ \A k \in (j + 1)..(i - 1) : Limb(a, k) = Limb(b, k)
              THEN 1 ELSE 0
  IN  BigNorm([i \in 1..Len(a) |-> (a[i] - Limb(b, i) - c(i) + Base) % Base])

BigSub(a, b) == CHOOSE r \in {BigSubV(x, y) : x \in {a}, y \in {b}} : TRUE

\* -1, 0, 1 as a < b, a = b, a > b
BigCmpV(a, b) ==
  IF Len(a) > Len(b) THEN 1
  ELSE IF Len(a) < Len(b) THEN -1
  ELSE IF \A i \in 1..Len(a) : a[i] = b[i] THEN 0
  ELSE LET i == CHOOSE i \in 1..Len(a) :
                  a[i] # b[i] /\ \A j \in (i + 1)..Len(a) : a[j] = b[j]
       IN  IF a[i] > b[i] THEN 1 ELSE -1

BigCmp(a, b) == CHOOSE r \in {BigCmpV(x, y) : x \in {a}, y \in {b}} : TRUE

Zeros(n) == [i \in 1..n |-> 0]

\* a * k for 0 <= k <= Base
BigMulLimbV(a, k) ==
  BigAdd([i \in 1..Len(a) |-> (a[i] * k) % Base],
         <<0>> \o [i \in 1..Len(a) |-> (a[i] * k) \div Base])

BigMulLimb(a, k) == CHOOSE r \in {BigMulLimbV(x, y) : x \in {a}, y \in {k}} : TRUE

RECURSIVE BigMulFrom(_, _, _)
BigMulFrom(a, b, i) ==
  IF i > Len(a) THEN <<>>
  ELSE BigAdd(Zeros(i - 1) \o BigMulLimb(b, a[i]), BigMulFrom(a, b, i + 1))

BigMul(a, b) == CHOOSE r \in {BigMulFrom(x, y, 1) : x \in {a}, y \in {b}} : TRUE

\* a * 2^n
BigShlV(a, n) ==
  BigNorm(Zeros(n \div LimbBits) \o BigMulLimb(a, 2 ^ (n % LimbBits)))

BigShl(a, n) == CHOOSE r \in {BigShlV(x, y) : x \in {a}, y \in {n}} : TRUE

\* floor(a / 2^n)
BigShrV(a, n) ==
  LET d == n \div LimbBits
      r == n % LimbBits
  IN  BigNorm([i \in 1..Max(Len(a) - d, 0) |->
                 (Limb(a, i + d) \div (2 ^ r))
                 + (Limb(a, i + d + 1) % (2 ^ r)) * (2 ^ (LimbBits - r))])

BigShr(a, n) == CHOOSE r \in {BigShrV(x, y) : x \in {a}, y \in {n}} : TRUE

RECURSIVE IntBitLen(_)
IntBitLen(n) == IF n = 0 THEN 0 ELSE 1 + IntBitLen(n \div 2)

BigBitLenV(a) ==
  IF a = <<>> THEN 0 ELSE (Len(a) - 1) * LimbBits + IntBitLen(a[Len(a)])

BigBitLen(a) == CHOOSE r \in {BigBitLenV(x) : x \in {a}} : TRUE

\* bit i of a, bit 0 the least significant
BigBit(a, i) == (Limb(a, (i \div LimbBits) + 1) \div (2 ^ (i % LimbBits))) % 2

(***************************************************************************)
(* Long division in limbs.  The divisor d has its top limb at least Base/2 *)
(* and the running remainder r is below d * Base, so the quotient of r's   *)
(* two top limbs by d's top limb is the digit or exceeds it by at most 2.  *)
(***************************************************************************)
BigDivDigitV(r, d) ==
  LET n   == Len(d)
      est == Min((Limb(r, n + 1) * Base + Limb(r, n)) \div d[n], Base - 1)
  IN  CHOOSE g \in Max(0, est - 2)..est :
        BigCmp(BigMulLimb(d, g), r) <= 0 /\ BigCmp(BigMulLimb(d, g + 1), r) > 0

\* <<quotient, remainder>> after the next lower limb nl of the dividend
BigDivStepV(nl, d, q, r) ==
  CHOOSE res \in UNION {{<<<<g>> \o q, BigSub(r1, BigMulLimb(d, g))>> :
                            g \in {BigDivDigitV(r1, d)}} :
                          r1 \in {BigNorm(<<nl>> \o r)}} : TRUE

\* qr is <<quotient, remainder>> of the limbs of n above limb i
RECURSIVE BigDivModFromV(_, _, _, _)
BigDivModFromV(n, d, i, qr) ==
  IF i = 0 THEN qr
  ELSE CHOOSE res \in {BigDivModFromV(n, d, i - 1, x) :
                         x \in {BigDivStepV(n[i], d, qr[1], qr[2])}} : TRUE

\* <<quotient, remainder>> of n by d > 0: both are scaled by 2^t, which makes
\* d's top limb at least Base/2 and leaves the quotient as it is
BigDivModV(n, d) ==
  LET t == (LimbBits - (BigBitLen(d) % LimbBits)) % LimbBits
  IN  CHOOSE res \in {<<BigNorm(qr[1]), BigShr(qr[2], t)>> :
                        qr \in {BigDivModFromV(n2, d2, Len(n2), <<<<>>, <<>>>>) :
                                  n2 \in {BigShl(n, t)}, d2 \in {BigShl(d, t)}}} : TRUE

BigDivMod(n, d) == CHOOSE r \in {BigDivModV(x, y) : x \in {n}, y \in {d}} : TRUE

(***************************************************************************)
(* float64: a positive finite double is [m |-> significand, e |-> exponent]*)
(* with 2^52 <= m < 2^53, of value m * 2^e.  Every operation rounds the    *)
(* exact result to nearest, ties to even.  The values the pipelines        *)
(* compute (heights, weights, BMI) are far from the subnormal and the      *)
(* overflow range.                                                         *)
(***************************************************************************)
MantBits == 53

\* q * 2^e rounded to MantBits bits, for q of more than MantBits + 1 bits;
\* sticky says that bits below q's lowest were lost (the value is above q * 2^e)
FRoundQV(q, sticky, e) ==
  LET sh  == BigBitLen(q) - MantBits
      m0  == BigShr(q, sh)
      low == (BigShl(BigShr(q, sh - 1), sh - 1) # q) \/ sticky
      up  == BigBit(q, sh - 1) = 1 /\ (low \/ BigBit(m0, 0) = 1)
      m1  == IF up THEN BigAdd(m0, <<1>>) ELSE m0
  IN  IF BigBitLen(m1) > MantBits
      THEN [m |-> BigShr(m1, 1), e |-> e + sh + 1]
      ELSE [m |-> m1, e |-> e + sh]

\* the double nearest to n * 2^k / d, for naturals n > 0, d > 0
FRoundV(n, d, k) ==
  LET s == Max(0, MantBits + 3 + BigBitLen(d) - BigBitLen(n))
  IN  CHOOSE f \in {FRoundQV(qr[1], qr[2] # <<>>, k - s) :
                      qr \in {BigDivMod(BigShl(n, s), d)}} : TRUE

FRound(n, d, k) ==
  CHOOSE f \in {FRoundV(x, y, z) : x \in {n}, y \in {d}, z \in {k}} : TRUE

FOfInt(n) == FRound(BigOf(n), <<1>>, 0)
FDivV(x, y) == FRound(x.m, y.m, x.e - y.e)
FDiv(a, b) == CHOOSE f \in {FDivV(x, y) : x \in {a}, y \in {b}} : TRUE
FMulV(x, y) == FRound(BigMul(x.m, y.m), <<1>>, x.e + y.e)
FMul(a, b) == CHOOSE f \in {FMulV(x, y) : x \in {a}, y \in {b}} : TRUE
FGtV(x, y) ==
  IF x.e >= y.e THEN BigCmp(BigShl(x.m, x.e - y.e), y.m) > 0
                ELSE BigCmp(x.m, BigShl(y.m, y.e - x.e)) > 0
FGt(a, b) == CHOOSE f \in {FGtV(x, y) : x \in {a}, y \in {b}} : TRUE

(***************************************************************************)
(* The dataset.  medical_examination.csv has one row per examination; the  *)
(* pipelines read the columns they name and df.corr() reads them all.      *)
(***************************************************************************)
ColumnOrder ==
  <<"id", "age", "gender", "height", "weight", "ap_hi", "ap_lo",
    "cholesterol", "gluc", "smoke", "alco", "active", "cardio">>

AllColumns == {ColumnOrder[i] : i \in 1..Len(ColumnOrder)}

\* Examinations the dataset is drawn from (id is set by the row's place).
\* 140 cm / 49 kg, 160 cm / 64 kg: a body-mass index of exactly 25.
Patients ==
  { [id |-> 0, age |-> 50, gender |-> 2, height |-> 140, weight |-> 49,
     ap_hi |-> 120, ap_lo |-> 80, cholesterol |-> 1, gluc |-> 2,
     smoke |-> 0, alco |-> 0, active |-> 1, cardio |-> 0],
    [id |-> 0, age |-> 54, gender |-> 1, height |-> 160, weight |-> 64,
     ap_hi |-> 100, ap_lo |-> 100, cholesterol |-> 2, gluc |-> 1,
     smoke |-> 1, alco |-> 0, active |-> 1, cardio |-> 1],
    [id |-> 0, age |-> 48, gender |-> 1, height |-> 160, weight |-> 64,
     ap_hi |-> 112, ap_lo |-> 70, cholesterol |-> 3, gluc |-> 1,
     smoke |-> 1, alco |-> 0, active |-> 1, cardio |-> 1],
    [id |-> 0, age |-> 61, gender |-> 2, height |-> 180, weight |-> 90,
     ap_hi |-> 80, ap_lo |-> 120, cholesterol |-> 3, gluc |-> 3,
     smoke |-> 0, alco |-> 1, active |-> 0, cardio |-> 1] }

MaxRows == 3

\* the tables of 1..MaxRows examinations, ids 0, 1, 2, ... in row order
Tables ==
  UNION {{[i \in 1..n |-> [t[i] EXCEPT !.id = i - 1]] : t \in [1..n -> Patients]} :
           n \in 1..MaxRows}

\* A file may lack a column: one both pipelines read, one only draw_cat_plot
\* reads, one only draw_heat_map reads.
DroppedColumns == {{}, {"weight"}, {"smoke"}, {"ap_lo"}}

MissingFile == [exists |-> FALSE, columns |-> {}, rows |-> <<>>]

CsvFile(t, drop) ==
  [exists  |-> TRUE,
   columns |-> AllColumns \ drop,
   rows    |-> [i \in 1..Len(t) |-> [c \in AllColumns \ drop |-> t[i][c]]]]

CsvFiles == {MissingFile} \cup {CsvFile(t, drop) : t \in Tables, drop \in DroppedColumns}

(***************************************************************************)
(* The derived columns.                                                    *)
(***************************************************************************)
BmiThreshold == 25

\* lines 17-18: bmi = weight / (height / 100)**2 ; (bmi > 25).astype(int)
CatBmi(h, w) ==
  CHOOSE b \in {FDiv(FOfInt(w), FMul(m, m)) : m \in {FDiv(FOfInt(h), FOfInt(100))}} : TRUE

CatOverweight(h, w) == IF FGt(CatBmi(h, w), FOfInt(BmiThreshold)) THEN 1 ELSE 0

\* A variant of line 74 that scales after dividing,
\* weight / height**2 * 10000 > 25: equal over the reals, not in float64.
HeatOverweightRescaled(h, w) ==
  IF FGt(FMul(FDiv(FOfInt(w), FOfInt(h * h)), FOfInt(10000)), FOfInt(BmiThreshold))
  THEN 1 ELSE 0

\* line 74: (weight / (height / 100)**2 > 25).astype(int)
HeatOverweight(h, w) ==
  IF FGt(CHOOSE b \in {FDiv(FOfInt(w), FMul(m, m)) :
                         m \in {FDiv(FOfInt(h), FOfInt(100))}} : TRUE,
         FOfInt(BmiThreshold))
  THEN 1 ELSE 0

\* The float64 results for the measurements of the dataset, computed once.
Measurements == {<<p.height, p.weight>> : p \in Patients}
CatOverweightRows == {hw \in Measurements : CatOverweight(hw[1], hw[2]) = 1} \cup {}
HeatOverweightRows == {hw \in Measurements : HeatOverweight(hw[1], hw[2]) = 1} \cup {}

\* A variant of lines 23, 27 comparing with >= 1.
CatBinarizeAtLeastOne(v) == IF v >= 1 THEN 1 ELSE 0

\* lines 23, 27: (df[col] > 1).astype(int)
CatBinarize(v) == IF v > 1 THEN 1 ELSE 0

\* lines 75, 76
HeatBinarize(v) == IF v > 1 THEN 1 ELSE 0

\* df of draw_cat_plot after line 27
CatDerive(rows) ==
  [i \in 1..Len(rows) |->
     [c \in (DOMAIN rows[i]) \cup {"overweight"} |->
        CASE c = "overweight" ->
               IF <<rows[i].height, rows[i].weight>> \in CatOverweightRows THEN 1 ELSE 0
          [] c = "cholesterol" -> CatBinarize(rows[i].cholesterol)
          [] c = "gluc" -> CatBinarize(rows[i].gluc)
          [] OTHER -> rows[i][c]]]

\* df of draw_heat_map after line 76
HeatDerive(rows) ==
  [i \in 1..Len(rows) |->
     [c \in (DOMAIN rows[i]) \cup {"overweight"} |->
        CASE c = "overweight" ->
               IF <<rows[i].height, rows[i].weight>> \in HeatOverweightRows THEN 1 ELSE 0
          [] c = "cholesterol" -> HeatBinarize(rows[i].cholesterol)
          [] c = "gluc" -> HeatBinarize(rows[i].gluc)
          [] OTHER -> rows[i][c]]]

(***************************************************************************)
(* draw_cat_plot: melt, group and count.                                   *)
(***************************************************************************)
ValueVars == <<"cholesterol", "gluc", "smoke", "alco", "active", "overweight">>

\* the columns draw_cat_plot reads from the file (lines 17-34)
CatColumnsRead ==
  {"weight", "height", "cholesterol", "gluc", "cardio", "smoke", "alco", "active"}

\* lines 31-35: one long row per value variable and source row, the value
\* variables in order and the source rows in order within each
Melt(df) ==
  [k \in 1..(Len(ValueVars) * Len(df)) |->
     LET v == ValueVars[((k - 1) \div Len(df)) + 1]
         r == df[((k - 1) % Len(df)) + 1]
     IN  [cardio |-> r.cardio, variable |-> v, value |-> r[v]]]

\* A variant of lines 39-43 that counts the distinct values of a group
\* (nunique() for count()): every total is 1.
GroupCountDistinct(long) ==
  {[cardio |-> g.cardio, variable |-> g.variable, value |-> g.value, total |-> 1] :
     g \in {long[k] : k \in 1..Len(long)}}

\* lines 39-43: one row per (cardio, variable, value) present, total the
\* number of long rows of the group
GroupCount(long) ==
  {[cardio |-> g.cardio, variable |-> g.variable, value |-> g.value,
    total |-> Cardinality({k \in 1..Len(long) : long[k] = g})] :
     g \in {long[k] : k \in 1..Len(long)}}

(***************************************************************************)
(* draw_heat_map: filter, correlate, mask.                                 *)
(***************************************************************************)
\* the columns draw_heat_map reads by name (lines 74-87)
HeatColumnsRead == {"weight", "height", "cholesterol", "gluc", "ap_lo", "ap_hi"}

\* Series.quantile(q) for q = num / QuantileDen, times QuantileDen: linear
\* interpolation between the two order statistics around (n - 1) * q.
\* (With integer data and n - 1 < QuantileDen the float64 result compares
\* with every value of the column as the exact one does: an interpolated
\* quantile lies strictly between two neighbouring order statistics.)
QuantileDen == 40
QuantileLow == 1
QuantileHigh == 39

Column(df, c) == [i \in 1..Len(df) |-> df[i][c]]

QuantileScaled(xs, num) ==
  LET st  == SortSeq(xs, LAMBDA x, y : x < y)
      pos == (Len(xs) - 1) * num
      lo  == (pos \div QuantileDen) + 1
      fr  == pos % QuantileDen
  IN  IF fr = 0 THEN QuantileDen * st[lo]
      ELSE QuantileDen * st[lo] + (st[lo + 1] - st[lo]) * fr

\* A variant of lines 82-88 that filters in stages: the pressure condition
\* first, the quantiles taken over the rows that passed it.
FilterStagewise(df) ==
  LET ok  == SelectSeq(df, LAMBDA r : r.ap_lo <= r.ap_hi)
      hlo == QuantileScaled(Column(ok, "height"), QuantileLow)
      hhi == QuantileScaled(Column(ok, "height"), QuantileHigh)
      wlo == QuantileScaled(Column(ok, "weight"), QuantileLow)
      whi == QuantileScaled(Column(ok, "weight"), QuantileHigh)
      Keep(r) == /\ QuantileDen * r.height >= hlo
                 /\ QuantileDen * r.height <= hhi
                 /\ QuantileDen * r.weight >= wlo
                 /\ QuantileDen * r.weight <= whi
  IN  IF ok = <<>> THEN <<>> ELSE SelectSeq(ok, Keep)

\* A variant of lines 82-88 with the strict comparison ap_lo < ap_hi.
FilterStrictPressure(df) ==
  LET hlo == QuantileScaled(Column(df, "height"), QuantileLow)
      hhi == QuantileScaled(Column(df, "height"), QuantileHigh)
      wlo == QuantileScaled(Column(df, "weight"), QuantileLow)
      whi == QuantileScaled(Column(df, "weight"), QuantileHigh)
      Keep(r) == /\ r.ap_lo < r.ap_hi
                 /\ QuantileDen * r.height >= hlo
                 /\ QuantileDen * r.height <= hhi
                 /\ QuantileDen * r.weight >= wlo
                 /\ QuantileDen * r.weight <= whi
  IN  SelectSeq(df, Keep)

\* lines 82-88: the rows for which all five conditions hold; each quantile
\* is taken over df, the unfiltered table
Filter(df) ==
  LET hlo == QuantileScaled(Column(df, "height"), QuantileLow)
      hhi == QuantileScaled(Column(df, "height"), QuantileHigh)
      wlo == QuantileScaled(Column(df, "weight"), QuantileLow)
      whi == QuantileScaled(Column(df, "weight"), QuantileHigh)
      Keep(r) == /\ r.ap_lo <= r.ap_hi
                 /\ QuantileDen * r.height >= hlo
                 /\ QuantileDen * r.height <= hhi
                 /\ QuantileDen * r.weight >= wlo
                 /\ QuantileDen * r.weight <= whi
  IN  SelectSeq(df, Keep)

RECURSIVE Gcd(_, _)
Gcd(a, b) == IF b = 0 THEN a ELSE Gcd(b, a % b)

Abs(x) == IF x < 0 THEN -x ELSE x

RECURSIVE SumTo(_, _)
SumTo(f, n) == IF n = 0 THEN 0 ELSE f[n] + SumTo(f, n - 1)

\* A correlation coefficient: NaN, or sign * sqrt(num / den) with num / den
\* in lowest terms.
NaN == [nan |-> TRUE, sign |-> 0, num |-> 0, den |-> 0]
Zero == [nan |-> FALSE, sign |-> 0, num |-> 0, den |-> 1]
One == [nan |-> FALSE, sign |-> 1, num |-> 1, den |-> 1]

\* the deviations of a column from its mean, times the number n of rows
Deviations(xs) ==
  LET n == Len(xs)
      m == SumTo(xs, n)
  IN  <<>> \o [i \in 1..n |-> n * xs[i] - m]

\* the sum of the products of two columns' deviations
Dot(dx, dy) == SumTo([i \in 1..Len(dx) |-> dx[i] * dy[i]], Len(dx))

\* A variant of Pearson that reports 0.0 where the coefficient is undefined.
PearsonZeroWhenUndefined(n, sxy, sxx, syy) ==
  IF n = 0 \/ sxx = 0 \/ syy = 0 THEN Zero
  ELSE LET g1 == Gcd(Abs(sxy), sxx)
           g2 == Gcd(Abs(sxy), syy)
           g3 == Gcd(Abs(sxy) \div g1, syy \div g2)
           g4 == Gcd(Abs(sxy) \div g2, sxx \div g1)
       IN  [nan  |-> FALSE,
            sign |-> IF sxy > 0 THEN 1 ELSE IF sxy < 0 THEN -1 ELSE 0,
            num  |-> ((Abs(sxy) \div g1) \div g3) * ((Abs(sxy) \div g2) \div g4),
            den  |-> ((sxx \div g1) \div g4) * ((syy \div g2) \div g3)]

\* Pearson's coefficient sxy / sqrt(sxx * syy) as DataFrame.corr() computes
\* it from the sums of the products of the deviations: NaN when there is no
\* row or the divisor is 0.  The value is kept exact.  The float64 result
\* is NaN in the same cells and 1.0 on the same diagonal cells (x / sqrt(x*x)
\* is 1.0 in float64), and for the tables of up to MaxRows rows drawn from
\* Patients it is 0.0 in exactly the cells whose exact value is 0 (the
\* float64 running-mean updates, replayed on those tables, give 0.0 there
\* and nowhere else).
Pearson(n, sxy, sxx, syy) ==
  LET g1 == Gcd(Abs(sxy), sxx)
      g2 == Gcd(Abs(sxy), syy)
      g3 == Gcd(Abs(sxy) \div g1, syy \div g2)
      g4 == Gcd(Abs(sxy) \div g2, sxx \div g1)
  IN  IF n = 0 \/ sxx = 0 \/ syy = 0 THEN NaN
      ELSE [nan  |-> FALSE,
            sign |-> IF sxy > 0 THEN 1 ELSE IF sxy < 0 THEN -1 ELSE 0,
            num  |-> ((Abs(sxy) \div g1) \div g3) * ((Abs(sxy) \div g2) \div g4),
            den  |-> ((sxx \div g1) \div g4) * ((syy \div g2) \div g3)]

\* the columns of df in the file's order, overweight last
ColumnsOf(columns) ==
  SelectSeq(ColumnOrder, LAMBDA c : c \in columns) \o <<"overweight">>

\* line 91: df_heat.corr(), each pair of columns computed once and stored
\* at [i][j] and at [j][i]
Corr(df, cols) ==
  LET n == Len(cols)
      Half(dev, ss) ==
        <<>> \o [i \in 1..n |->
          <<>> \o [j \in 1..i |-> Pearson(Len(df), Dot(dev[i], dev[j]), ss[i], ss[j])]]
      Full(half) ==
        <<>> \o [i \in 1..n |->
          <<>> \o [j \in 1..n |-> IF j <= i THEN half[i][j] ELSE half[j][i]]]
  IN  CHOOSE m \in
        UNION {UNION {{Full(half) : half \in {Half(dev, ss)}} :
                        ss \in {<<>> \o [c \in 1..n |-> Dot(dev[c], dev[c])]}} :
                 dev \in {<<>> \o [c \in 1..n |-> Deviations(Column(df, cols[c]))]}} : TRUE

\* line 95: np.triu(corr): corr on and above the diagonal, 0.0 below
Triu(c) ==
  <<>> \o [i \in 1..Len(c) |->
    <<>> \o [j \in 1..Len(c) |-> IF j >= i THEN c[i][j] ELSE Zero]]

\* lines 101-103: seaborn reads mask as booleans (a cell is hidden where the
\* mask is not 0.0; NaN is not 0.0) and hides every cell whose datum is NaN
Hidden(c, m) ==
  <<>> \o [i \in 1..Len(c) |->
    <<>> \o [j \in 1..Len(c) |-> (m[i][j] # Zero) \/ c[i][j].nan]]

(***************************************************************************)
(* The state: the three files, what the last call returned, and the locals *)
(* the last successful call of each pipeline held: df of draw_cat_plot     *)
(* (df_cat_plot) and its df_cat; df of draw_heat_map (df_heat_map) and its *)
(* df_heat, corr and mask.                                                 *)
(***************************************************************************)
VARIABLES csv, catplot_png, heatmap_png, ret,
          df_cat_plot, df_cat, df_heat_map, df_heat, corr, mask

vars == <<csv, catplot_png, heatmap_png, ret,
          df_cat_plot, df_cat, df_heat_map, df_heat, corr, mask>>

NoCatPng == [exists |-> FALSE, data |-> {}]
NoHeatPng == [exists |-> FALSE, labels |-> <<>>, hidden |-> <<>>]

Init ==
  /\ csv \in CsvFiles
  /\ catplot_png = NoCatPng
  /\ heatmap_png = NoHeatPng
  /\ ret = [call |-> "none", result |-> "none"]
  /\ df_cat_plot = <<>>
  /\ df_cat = {}
  /\ df_heat_map = <<>>
  /\ df_heat = <<>>
  /\ corr = <<>>
  /\ mask = <<>>

\* A variant of draw_cat_plot that creates catplot.png before it reads the
\* dataset: a failing call leaves an empty image behind.
DrawCatPlotImageFirst ==
  /\ UNCHANGED <<csv, heatmap_png, df_heat_map, df_heat, corr, mask>>
  /\ \/ /\ ~csv.exists
        /\ ret' = [call |-> "draw_cat_plot", result |-> "FileNotFoundError"]
        /\ catplot_png' = [exists |-> TRUE, data |-> {}]
        /\ UNCHANGED <<df_cat_plot, df_cat>>
     \/ /\ csv.exists
        /\ ~(CatColumnsRead \subseteq csv.columns)
        /\ ret' = [call |-> "draw_cat_plot", result |-> "KeyError"]
        /\ catplot_png' = [exists |-> TRUE, data |-> {}]
        /\ UNCHANGED <<df_cat_plot, df_cat>>
     \/ /\ csv.exists
        /\ CatColumnsRead \subseteq csv.columns
        /\ df_cat_plot' = CatDerive(csv.rows)
        /\ df_cat' = GroupCount(Melt(df_cat_plot'))
        /\ catplot_png' = [exists |-> TRUE, data |-> df_cat']
        /\ ret' = [call |-> "draw_cat_plot", result |-> "fig"]

\* draw_cat_plot(), lines 6-62
DrawCatPlot ==
  /\ UNCHANGED <<csv, heatmap_png, df_heat_map, df_heat, corr, mask>>
  /\ \/ /\ ~csv.exists
        /\ ret' = [call |-> "draw_cat_plot", result |-> "FileNotFoundError"]
        /\ UNCHANGED <<catplot_png, df_cat_plot, df_cat>>
     \/ /\ csv.exists
        /\ ~(CatColumnsRead \subseteq csv.columns)
        /\ ret' = [call |-> "draw_cat_plot", result |-> "KeyError"]
        /\ UNCHANGED <<catplot_png, df_cat_plot, df_cat>>
     \/ /\ csv.exists
        /\ CatColumnsRead \subseteq csv.columns
        /\ df_cat_plot' = CatDerive(csv.rows)
        /\ df_cat' = GroupCount(Melt(df_cat_plot'))
        /\ catplot_png' = [exists |-> TRUE, data |-> df_cat']
        /\ ret' = [call |-> "draw_cat_plot", result |-> "fig"]

\* A variant of draw_heat_map that works on the table draw_cat_plot left
\* behind when there is one (one df shared by the two functions): the
\* columns are derived a second time from the derived ones.
DrawHeatMapSharedTable ==
  /\ UNCHANGED <<csv, catplot_png, df_cat_plot, df_cat>>
  /\ \/ /\ ~csv.exists
        /\ ret' = [call |-> "draw_heat_map", result |-> "FileNotFoundError"]
        /\ UNCHANGED <<heatmap_png, df_heat_map, df_heat, corr, mask>>
     \/ /\ csv.exists
        /\ ~(HeatColumnsRead \subseteq csv.columns)
        /\ ret' = [call |-> "draw_heat_map", result |-> "KeyError"]
        /\ UNCHANGED <<heatmap_png, df_heat_map, df_heat, corr, mask>>
     \/ /\ csv.exists
        /\ HeatColumnsRead \subseteq csv.columns
        /\ df_heat_map' = HeatDerive(IF df_cat_plot # <<>> THEN df_cat_plot ELSE csv.rows)
        /\ df_heat' = Filter(df_heat_map')
        /\ corr' = Corr(df_heat', ColumnsOf(csv.columns))
        /\ mask' = Triu(corr')
        /\ heatmap_png' = [exists |-> TRUE, labels |-> ColumnsOf(csv.columns),
                           hidden |-> Hidden(corr', mask')]
        /\ ret' = [call |-> "draw_heat_map", result |-> "fig"]

\* draw_heat_map(), lines 66-117
DrawHeatMap ==
  /\ UNCHANGED <<csv, catplot_png, df_cat_plot, df_cat>>
  /\ \/ /\ ~csv.exists
        /\ ret' = [call |-> "draw_heat_map", result |-> "FileNotFoundError"]
        /\ UNCHANGED <<heatmap_png, df_heat_map, df_heat, corr, mask>>
     \/ /\ csv.exists
        /\ ~(HeatColumnsRead \subseteq csv.columns)
        /\ ret' = [call |-> "draw_heat_map", result |-> "KeyError"]
        /\ UNCHANGED <<heatmap_png, df_heat_map, df_heat, corr, mask>>
     \/ /\ csv.exists
        /\ HeatColumnsRead \subseteq csv.columns
        /\ df_heat_map' = HeatDerive(csv.rows)
        /\ df_heat' = Filter(df_heat_map')
        /\ corr' = Corr(df_heat', ColumnsOf(csv.columns))
        /\ mask' = Triu(corr')
        /\ heatmap_png' = [exists |-> TRUE, labels |-> ColumnsOf(csv.columns),
                           hidden |-> Hidden(corr', mask')]
        /\ ret' = [call |-> "draw_heat_map", result |-> "fig"]

\* medical_examination.csv is taken away between two calls: the next
\* pd.read_csv (line 12, line 71) finds no file
RemoveDataset ==
  /\ csv.exists
  /\ csv' = MissingFile
  /\ UNCHANGED <<catplot_png, heatmap_png, ret,
               df_cat_plot, df_cat, df_heat_map, df_heat, corr, mask>>

Next == DrawCatPlot \/ DrawHeatMap \/ RemoveDataset

Spec == Init /\ [][Next]_vars

(***************************************************************************)
(* The properties.                                                         *)
(***************************************************************************)
CatRan == df_cat_plot # <<>>
HeatRan == df_heat_map # <<>>

Range(f) == {f[i] : i \in DOMAIN f}

\* 1 when weight / (height / 100)^2 > 25 over the rationals, else 0
ExactOverweight(r) ==
  IF r.weight * 10000 > 25 * r.height * r.height THEN 1 ELSE 0

\* C1: in both pipelines every row's overweight is 1 if and only if
\* weight / (height / 100)^2 > 25, so a row whose body-mass index is exactly
\* 25 has overweight 0.
C1_OverweightIffBmiAbove25 ==
  /\ \A i \in DOMAIN df_cat_plot : df_cat_plot[i].overweight = ExactOverweight(df_cat_plot[i])
  /\ \A i \in DOMAIN df_heat_map : df_heat_map[i].overweight = ExactOverweight(df_heat_map[i])

\* what the claim asks of a binarised ordinal
AboveNormal(orig, new) ==
  /\ new \in {0, 1}
  /\ (new = 1) <=> (orig > 1)
  /\ (orig = 1) => (new = 0)
  /\ (orig \in {2, 3}) => (new = 1)

\* C2: in both pipelines, for every row, the transformed cholesterol is 1 if
\* and only if the original cholesterol is > 1 and 0 otherwise, and likewise
\* gluc: 1 maps to 0, and 2 and 3 map to 1.
C2_Binarized ==
  csv.exists =>
    /\ CatRan => \A i \in DOMAIN df_cat_plot :
         /\ AboveNormal(csv.rows[i].cholesterol, df_cat_plot[i].cholesterol)
         /\ AboveNormal(csv.rows[i].gluc, df_cat_plot[i].gluc)
    /\ HeatRan => \A i \in DOMAIN df_heat_map :
         /\ AboveNormal(csv.rows[i].cholesterol, df_heat_map[i].cholesterol)
         /\ AboveNormal(csv.rows[i].gluc, df_heat_map[i].gluc)

\* both pipelines have run on a file holding the ordinals 1, 2 and 3
C2_Witness ==
  /\ csv.exists /\ CatRan /\ HeatRan
  /\ {csv.rows[i].cholesterol : i \in DOMAIN csv.rows} = {1, 2, 3}
  /\ {1, 2} \subseteq {csv.rows[i].gluc : i \in DOMAIN csv.rows}

RECURSIVE SumTotals(_)
SumTotals(groups) ==
  IF groups = {} THEN 0
  ELSE LET g == CHOOSE x \in groups : TRUE
       IN  g.total + SumTotals(groups \ {g})

\* C3: after the melt and the group-and-count step of draw_cat_plot, for
\* each of the six variables the totals of that variable's (cardio, value)
\* groups add up to the number of rows of the source table.
C3_TotalsAddUp ==
  CatRan =>
    /\ {g.variable : g \in df_cat} = Range(ValueVars)
    /\ \A v \in Range(ValueVars) :
         SumTotals({g \in df_cat : g.variable = v}) = Len(df_cat_plot)
    /\ csv.exists => Len(df_cat_plot) = Len(csv.rows)

\* a table of three rows or more in which a variable has several groups, one of
\* them of two rows or more
C3_Witness ==
  /\ CatRan /\ Len(df_cat_plot) >= 3
  /\ \E g, h \in df_cat : g.variable = h.variable /\ g # h /\ g.total >= 2

\* the k-th smallest value of a column
OrderStat(xs, k) ==
  CHOOSE v \in Range(xs) :
    /\ Cardinality({i \in DOMAIN xs : xs[i] < v}) < k
    /\ k <= Cardinality({i \in DOMAIN xs : xs[i] <= v})

\* 1000 times the percentile of a column at permille / 1000, by linear
\* interpolation between the order statistics around (n - 1) * permille / 1000
PercentileTimes1000(xs, permille) ==
  LET pos == (Len(xs) - 1) * permille
      lo  == (pos \div 1000) + 1
      fr  == pos % 1000
  IN  IF fr = 0 THEN 1000 * OrderStat(xs, lo)
      ELSE 1000 * OrderStat(xs, lo) + fr * (OrderStat(xs, lo + 1) - OrderStat(xs, lo))

\* the five conditions on a row r, the percentiles taken over the table df
FiveConditions(df, r) ==
  /\ r.ap_lo <= r.ap_hi
  /\ 1000 * r.height >= PercentileTimes1000(Column(df, "height"), 25)
  /\ 1000 * r.height <= PercentileTimes1000(Column(df, "height"), 975)
  /\ 1000 * r.weight >= PercentileTimes1000(Column(df, "weight"), 25)
  /\ 1000 * r.weight <= PercentileTimes1000(Column(df, "weight"), 975)

\* C4: every row of the filtered table of draw_heat_map has ap_lo <= ap_hi
\* and a height and a weight within the closed interval from the 2.5th to
\* the 97.5th percentile of the column, taken over the unfiltered table.
C4_FilterSound ==
  HeatRan => \A k \in DOMAIN df_heat :
    /\ df_heat[k] \in Range(df_heat_map)
    /\ FiveConditions(df_heat_map, df_heat[k])

\* rows were retained, and a row with ap_lo <= ap_hi was removed for a
\* percentile
C4_Witness ==
  /\ HeatRan /\ df_heat # <<>>
  /\ \E i \in DOMAIN df_heat_map :
       /\ df_heat_map[i].ap_lo <= df_heat_map[i].ap_hi
       /\ df_heat_map[i] \notin Range(df_heat)

\* C5: the mask given to the heatmap hides every cell (i, j) with j >= i and
\* no cell with j < i, whatever the correlations are, a correlation of
\* exactly 0 included.
C5_UpperTriangleMasked ==
  mask # <<>> =>
    \A i, j \in 1..Len(mask) :
      /\ (j >= i) => heatmap_png.hidden[i][j]
      /\ (j < i) => (mask[i][j] = Zero)

\* C6 as stated: every diagonal entry of the correlation matrix is 1.0 and
\* the matrix is symmetric, for every filtered table, one with a constant
\* column or fewer than two rows included.
C6_DiagonalOneSymmetric ==
  corr # <<>> =>
    /\ \A i \in 1..Len(corr) : corr[i][i] = One
    /\ \A i, j \in 1..Len(corr) : corr[i][j] = corr[j][i]

\* C6, amended: a diagonal entry is 1.0 when its column takes two values or
\* more in the filtered table and NaN otherwise (a constant column, a table
\* of fewer than two rows), and the matrix is symmetric, NaN cells included.
C6_DiagonalOneOrNaNSymmetric ==
  corr # <<>> =>
    /\ Len(corr) = Len(heatmap_png.labels)
    /\ \A i \in 1..Len(corr) :
         corr[i][i] =
           IF Cardinality({df_heat[k][heatmap_png.labels[i]] : k \in DOMAIN df_heat}) >= 2
           THEN One ELSE NaN
    /\ \A i, j \in 1..Len(corr) : corr[i][j] = corr[j][i]

\* a matrix with a 1.0 and a NaN on the diagonal and a defined coefficient
\* other than 1.0 off it
C6_Witness ==
  /\ corr # <<>>
  /\ \E i, j \in 1..Len(corr) : corr[i][i] = One /\ corr[j][j] = NaN
  /\ \E i, j \in 1..Len(corr) : i # j /\ ~corr[i][j].nan /\ corr[i][j] # One

\* a step that is a call: it changes the result, an image or a table
CallEffect ==
  <<catplot_png, heatmap_png, ret, df_cat_plot, df_cat, df_heat_map, df_heat, corr, mask>>' #
  <<catplot_png, heatmap_png, ret, df_cat_plot, df_cat, df_heat_map, df_heat, corr, mask>>

\* C7: no call changes medical_examination.csv; only draw_cat_plot writes
\* catplot.png and its tables and only draw_heat_map writes heatmap.png and
\* its tables; and the tables of a call are those of the file alone, as if
\* the call were the only one made.
C7_IndependentPipelines ==
  [][/\ CallEffect => csv' = csv
     /\ <<catplot_png, df_cat_plot, df_cat>>' # <<catplot_png, df_cat_plot, df_cat>>
          => ret'.call = "draw_cat_plot"
     /\ <<heatmap_png, df_heat_map, df_heat, corr, mask>>' #
        <<heatmap_png, df_heat_map, df_heat, corr, mask>>
          => ret'.call = "draw_heat_map"
     /\ (CallEffect /\ ret'.result = "fig" /\ ret'.call = "draw_cat_plot")
          => /\ df_cat_plot' = CatDerive(csv.rows)
             /\ df_cat' = GroupCount(Melt(CatDerive(csv.rows)))
     /\ (CallEffect /\ ret'.result = "fig" /\ ret'.call = "draw_heat_map")
          => /\ df_heat_map' = HeatDerive(csv.rows)
             /\ df_heat' = Filter(HeatDerive(csv.rows))
             /\ corr' = Corr(df_heat', ColumnsOf(csv.columns))
             /\ mask' = Triu(corr')
    ]_vars

\* both functions have been called with success, draw_heat_map first, on a
\* file in which a row has cholesterol above normal
C7_Witness ==
  /\ csv.exists /\ catplot_png.exists /\ heatmap_png.exists
  /\ ret = [call |-> "draw_cat_plot", result |-> "fig"]
  /\ \E i \in DOMAIN df_heat_map : df_heat_map[i].cholesterol = 1

Failures == {"FileNotFoundError", "KeyError"}

\* C8 as stated: when the file is missing or lacks one of the columns of the
\* dataset, a call fails: no figure is returned and no image is written.
C8_FailsWithoutExpectedColumns ==
  [][(CallEffect /\ (~csv.exists \/ ~(AllColumns \subseteq csv.columns)))
       => /\ ret'.result \in Failures
          /\ catplot_png' = catplot_png
          /\ heatmap_png' = heatmap_png
    ]_vars

\* C8, amended: when the file is missing or lacks a column the called
\* function reads by name, the call fails: it returns no figure and leaves
\* its image as it was, absent or as an earlier call wrote it.  A file that
\* has the columns the called function reads does not make it fail,
\* whatever other column it lacks.
C8_FailsWithoutColumnsRead ==
  [][/\ (CallEffect /\ ret'.call = "draw_cat_plot"
           /\ (~csv.exists \/ ~(CatColumnsRead \subseteq csv.columns)))
          => /\ ret'.result \in Failures
             /\ ret'.result = "FileNotFoundError" <=> ~csv.exists
             /\ catplot_png' = catplot_png
     /\ (CallEffect /\ ret'.call = "draw_heat_map"
           /\ (~csv.exists \/ ~(HeatColumnsRead \subseteq csv.columns)))
          => /\ ret'.result \in Failures
             /\ ret'.result = "FileNotFoundError" <=> ~csv.exists
             /\ heatmap_png' = heatmap_png
     /\ (CallEffect /\ ret'.call = "draw_cat_plot"
           /\ csv.exists /\ CatColumnsRead \subseteq csv.columns)
          => ret'.result = "fig" /\ catplot_png'.exists
     /\ (CallEffect /\ ret'.call = "draw_heat_map"
           /\ csv.exists /\ HeatColumnsRead \subseteq csv.columns)
          => ret'.result = "fig" /\ heatmap_png'.exists
    ]_vars

\* a call of draw_cat_plot has failed for want of the file while catplot.png
\* of an earlier call is still there
C8_Witness ==
  /\ ret = [call |-> "draw_cat_plot", result |-> "FileNotFoundError"]
  /\ catplot_png.exists /\ catplot_png.data # {}

\* C9: for the same dataset the two pipelines derive overweight, cholesterol
\* and gluc alike, row by row.
C9_SameDerivation ==
  (CatRan /\ HeatRan) =>
    /\ Len(df_cat_plot) = Len(df_heat_map)
    /\ \A i \in DOMAIN df_cat_plot :
         /\ df_cat_plot[i].overweight = df_heat_map[i].overweight
         /\ df_cat_plot[i].cholesterol = df_heat_map[i].cholesterol
         /\ df_cat_plot[i].gluc = df_heat_map[i].gluc
    /\ df_cat_plot = df_heat_map

\* both pipelines have run on a file holding a row of 140 cm and 49 kg, an
\* overweight row and a row that is not
C9_Witness ==
  /\ CatRan /\ HeatRan
  /\ \E i \in DOMAIN df_cat_plot : df_cat_plot[i].height = 140 /\ df_cat_plot[i].weight = 49
  /\ {df_heat_map[i].overweight : i \in DOMAIN df_heat_map} = {0, 1}

====
